---- MODULE Spec2Model ----
(***************************************************************************)
(* The wire codec of rainyday (src/protocol.rs): the peer messages and the *)
(* handshake, each with its conversion from bytes (TryFrom<Bytes>) and to  *)
(* bytes (From<..> for Bytes).                                             *)
(*                                                                         *)
(* A Vec<u8> is a sequence of numbers in 0..255; Rust's 0-based value[i]   *)
(* is value[i + 1] here.  A conversion returns Ok(v), Err(e) or, when the  *)
(* code would panic, Panic(why).                                           *)
(*                                                                         *)
(* A u32 has 32 bits in the program and U32Bits bits here: the width acts  *)
(* where the code does u32 arithmetic that can overflow, the `as u32` cast *)
(* of a length and the additions of the encoder.  The four big-endian      *)
(* bytes of a u32 are converted exactly (base 256).  usize is wider than   *)
(* u32 (a 64-bit target), so the decoder's `length as usize + 4` does not  *)
(* overflow.                                                               *)
(***************************************************************************)
EXTENDS Integers, Sequences, FiniteSets, TLC

VARIABLES
    overflow_checks,  \* the build: TRUE when integer overflow panics (debug)
    input,            \* the value the caller starts from: [kind, val]
    calls,            \* the conversions applied so far: <<[fn, arg, out], ...>>
    threads           \* the calls in flight when several callers convert at once

vars == <<overflow_checks, input, calls, threads>>

----------------------------------------------------------------------------
(* Bounds of the model *)

U32Bits == 7
MaxCalls == 2
MaxGarbageLen == 5
MaxPayloadLen == 13
MaxOpaqueLen == 4
NumCallers == 2

----------------------------------------------------------------------------
(* Results and byte helpers *)

Ok(v) == [tag |-> "Ok", val |-> v]
Err(e) == [tag |-> "Err", val |-> e]
Panic(why) == [tag |-> "Panic", val |-> why]

DecodeError == {"TooLong", "TooShort", "WrongLength", "InvalidMessageType"}

\* size_of::<u32>()
SizeOfU32 == 4

U32Modulus == 2 ^ U32Bits

\* value[a..b].to_vec(), 0-based, b exclusive; the caller checks SliceOk first
Slice(value, a, b) == SubSeq(value, a + 1, b)

\* value[a..].to_vec()
SliceFrom(value, a) == SubSeq(value, a + 1, Len(value))

\* value[a..b] panics unless a <= b and b <= len
SliceOk(value, a, b) == a <= b /\ b <= Len(value)

\* value[i] panics unless i < len
IndexOk(value, i) == i < Len(value)

Repeat(b, n) == [i \in 1..n |-> b]

\* u32_from_be_bytes gone wrong: only the lowest byte counts
u32_from_low_byte(b) == b[4]

\* u32::from_be_bytes([b0, b1, b2, b3])
u32_from_be_bytes(b) == b[1] * 16777216 + b[2] * 65536 + b[3] * 256 + b[4]

\* u32_to_be_bytes gone wrong: the bytes in little-endian order
u32_to_le_bytes(x) ==
    << x % 256, (x \div 256) % 256, (x \div 65536) % 256, (x \div 16777216) % 256 >>

\* x.to_be_bytes().to_vec() of a u32
u32_to_be_bytes(x) ==
    << (x \div 16777216) % 256, (x \div 65536) % 256, (x \div 256) % 256, x % 256 >>

\* n as u32, of a usize n
as_u32(n) == n % U32Modulus

\* a + b on u32: panics on overflow when the build checks it, wraps otherwise
u32_add(a, b, checks) ==
    IF a + b < U32Modulus THEN Ok(a + b)
    ELSE IF checks THEN Panic("attempt to add with overflow")
    ELSE Ok((a + b) % U32Modulus)

----------------------------------------------------------------------------
(* The payloads *)

\* HavePayload_try_from gone wrong: the check for a short payload is missing
HavePayload_try_from_NoShortCheck(value) ==
    IF Len(value) > SizeOfU32 THEN Err("TooLong")
    ELSE IF ~IndexOk(value, 3) THEN Panic("index out of bounds")
    ELSE Ok([index |-> u32_from_be_bytes(<<value[1], value[2], value[3], value[4]>>)])

\* HavePayload_try_from gone wrong: the check for a long payload is missing
HavePayload_try_from_NoLongCheck(value) ==
    IF Len(value) < SizeOfU32 THEN Err("TooShort")
    ELSE IF ~IndexOk(value, 3) THEN Panic("index out of bounds")
    ELSE Ok([index |-> u32_from_be_bytes(<<value[1], value[2], value[3], value[4]>>)])

\* impl TryFrom<Bytes> for HavePayload
HavePayload_try_from(value) ==
    IF Len(value) > SizeOfU32 THEN Err("TooLong")
    ELSE IF Len(value) < SizeOfU32 THEN Err("TooShort")
    ELSE IF ~IndexOk(value, 3) THEN Panic("index out of bounds")
    ELSE Ok([index |-> u32_from_be_bytes(<<value[1], value[2], value[3], value[4]>>)])

\* impl From<HavePayload> for Bytes
HavePayload_into_Bytes(value) == u32_to_be_bytes(value.index)

\* BitfieldPayload_try_from gone wrong: an empty bitfield is refused
BitfieldPayload_try_from_NonEmpty(value) ==
    IF Len(value) < 1 THEN Err("TooShort") ELSE Ok([bitfield |-> value])

\* impl TryFrom<Bytes> for BitfieldPayload
BitfieldPayload_try_from(value) == Ok([bitfield |-> value])

\* impl From<BitfieldPayload> for Bytes
BitfieldPayload_into_Bytes(value) == value.bitfield

\* impl From<RequestPayload> for Bytes
RequestPayload_into_Bytes(value) ==
    u32_to_be_bytes(value.index) \o u32_to_be_bytes(value.begin)
        \o u32_to_be_bytes(value.length)

\* RequestPayload_try_from gone wrong: begin and length read from each other's
\* bytes
RequestPayload_try_from_Swapped(value) ==
    IF Len(value) > 3 * SizeOfU32 THEN Err("TooLong")
    ELSE IF Len(value) < 3 * SizeOfU32 THEN Err("TooShort")
    ELSE IF ~IndexOk(value, 11) THEN Panic("index out of bounds")
    ELSE Ok([index |-> u32_from_be_bytes(<<value[1], value[2], value[3], value[4]>>),
             begin |-> u32_from_be_bytes(<<value[9], value[10], value[11], value[12]>>),
             length |-> u32_from_be_bytes(<<value[5], value[6], value[7], value[8]>>)])

\* impl TryFrom<Bytes> for RequestPayload
RequestPayload_try_from(value) ==
    IF Len(value) > 3 * SizeOfU32 THEN Err("TooLong")
    ELSE IF Len(value) < 3 * SizeOfU32 THEN Err("TooShort")
    ELSE IF ~IndexOk(value, 11) THEN Panic("index out of bounds")
    ELSE Ok([index |-> u32_from_be_bytes(<<value[1], value[2], value[3], value[4]>>),
             begin |-> u32_from_be_bytes(<<value[5], value[6], value[7], value[8]>>),
             length |-> u32_from_be_bytes(<<value[9], value[10], value[11], value[12]>>)])

\* impl TryFrom<Bytes> for PiecePayload
PiecePayload_try_from(value) ==
    IF Len(value) > 3 * SizeOfU32 THEN Err("TooLong")
    ELSE IF Len(value) < 3 * SizeOfU32 THEN Err("TooShort")
    ELSE IF ~IndexOk(value, 7) \/ ~SliceOk(value, 8, Len(value))
        THEN Panic("index out of bounds")
    ELSE Ok([index |-> u32_from_be_bytes(<<value[1], value[2], value[3], value[4]>>),
             begin |-> u32_from_be_bytes(<<value[5], value[6], value[7], value[8]>>),
             piece |-> SliceFrom(value, 8)])

\* impl From<PiecePayload> for Bytes
PiecePayload_into_Bytes(value) ==
    u32_to_be_bytes(value.index) \o u32_to_be_bytes(value.begin) \o value.piece

\* impl TryFrom<Bytes> for CancelPayload
CancelPayload_try_from(value) ==
    IF Len(value) > 3 * SizeOfU32 THEN Err("TooLong")
    ELSE IF Len(value) < 3 * SizeOfU32 THEN Err("TooShort")
    ELSE IF ~IndexOk(value, 11) THEN Panic("index out of bounds")
    ELSE Ok([index |-> u32_from_be_bytes(<<value[1], value[2], value[3], value[4]>>),
             begin |-> u32_from_be_bytes(<<value[5], value[6], value[7], value[8]>>),
             length |-> u32_from_be_bytes(<<value[9], value[10], value[11], value[12]>>)])

\* impl From<CancelPayload> for Bytes
CancelPayload_into_Bytes(value) ==
    u32_to_be_bytes(value.index) \o u32_to_be_bytes(value.begin)
        \o u32_to_be_bytes(value.length)

----------------------------------------------------------------------------
(* The peer messages *)

\* enum PeerMessage
Choke == [variant |-> "Choke"]
Unchoke == [variant |-> "Unchoke"]
Interested == [variant |-> "Interested"]
NotInterested == [variant |-> "NotInterested"]
Have(p) == [variant |-> "Have", payload |-> p]
Bitfield(p) == [variant |-> "Bitfield", payload |-> p]
Request(p) == [variant |-> "Request", payload |-> p]
Piece(p) == [variant |-> "Piece", payload |-> p]
Cancel(p) == [variant |-> "Cancel", payload |-> p]

\* BodylessTooLong gone wrong: the bound on the id is off by one
BodylessTooLong_Below3(id, value) == id < 3 /\ Len(value) > SizeOfU32 + 1

\* BodylessTooLong gone wrong: the id is not looked at
BodylessTooLong_AnyId(id, value) == Len(value) > SizeOfU32 + 1

\* the length check for non-payload peer messages
BodylessTooLong(id, value) == id <= 3 /\ Len(value) > SizeOfU32 + 1

\* Ok(Self::V(P::try_from(..)?)): an error of the payload is the result
WithPayload(variant, r) ==
    IF r.tag = "Ok" THEN Ok([variant |-> variant, payload |-> r.val]) ELSE r

\* PeerMessage_try_from gone wrong: four bytes, the length prefix alone, are
\* taken for a frame
PeerMessage_try_from_FourBytes(value) ==
    IF Len(value) < SizeOfU32 THEN Err("TooShort")
    ELSE IF ~IndexOk(value, 3) THEN Panic("index out of bounds")
    ELSE LET length == u32_from_be_bytes(<<value[1], value[2], value[3], value[4]>>) IN
    IF Len(value) # length + SizeOfU32 THEN Err("WrongLength")
    ELSE IF ~IndexOk(value, 4) THEN Panic("index out of bounds")
    ELSE LET id == value[5] IN
    IF BodylessTooLong(id, value) THEN Err("TooLong")
    ELSE IF id = 0 THEN Ok(Choke)
    ELSE IF id = 1 THEN Ok(Unchoke)
    ELSE IF id = 2 THEN Ok(Interested)
    ELSE IF id = 3 THEN Ok(NotInterested)
    ELSE IF id \in 4..8 /\ ~SliceOk(value, 5, Len(value))
        THEN Panic("slice index out of range")
    ELSE IF id = 4 THEN WithPayload("Have", HavePayload_try_from(SliceFrom(value, 5)))
    ELSE IF id = 5
        THEN WithPayload("Bitfield", BitfieldPayload_try_from(SliceFrom(value, 5)))
    ELSE IF id = 6
        THEN WithPayload("Request", RequestPayload_try_from(SliceFrom(value, 5)))
    ELSE IF id = 7 THEN WithPayload("Piece", PiecePayload_try_from(SliceFrom(value, 5)))
    ELSE IF id = 8 THEN WithPayload("Cancel", CancelPayload_try_from(SliceFrom(value, 5)))
    ELSE Err("InvalidMessageType")

\* impl TryFrom<Bytes> for PeerMessage
PeerMessage_try_from(value) ==
    IF Len(value) < SizeOfU32 + 1 THEN Err("TooShort")
    ELSE IF ~IndexOk(value, 3) THEN Panic("index out of bounds")
    ELSE LET length == u32_from_be_bytes(<<value[1], value[2], value[3], value[4]>>) IN
    IF Len(value) # length + SizeOfU32 THEN Err("WrongLength")
    ELSE IF ~IndexOk(value, 4) THEN Panic("index out of bounds")
    ELSE LET id == value[5] IN
    IF BodylessTooLong(id, value) THEN Err("TooLong")
    ELSE IF id = 0 THEN Ok(Choke)
    ELSE IF id = 1 THEN Ok(Unchoke)
    ELSE IF id = 2 THEN Ok(Interested)
    ELSE IF id = 3 THEN Ok(NotInterested)
    ELSE IF id \in 4..8 /\ ~SliceOk(value, 5, Len(value))
        THEN Panic("slice index out of range")
    ELSE IF id = 4 THEN WithPayload("Have", HavePayload_try_from(SliceFrom(value, 5)))
    ELSE IF id = 5
        THEN WithPayload("Bitfield", BitfieldPayload_try_from(SliceFrom(value, 5)))
    ELSE IF id = 6
        THEN WithPayload("Request", RequestPayload_try_from(SliceFrom(value, 5)))
    ELSE IF id = 7 THEN WithPayload("Piece", PiecePayload_try_from(SliceFrom(value, 5)))
    ELSE IF id = 8 THEN WithPayload("Cancel", CancelPayload_try_from(SliceFrom(value, 5)))
    ELSE Err("InvalidMessageType")

\* the match of From<PeerMessage> for Bytes: the u32 length (Ok or Panic)
EncodeLength(value, checks) ==
    CASE value.variant \in {"Choke", "Unchoke", "Interested", "NotInterested"} -> Ok(1)
      [] value.variant = "Have" -> Ok(5)
      [] value.variant = "Bitfield" ->
            u32_add(1, as_u32(Len(value.payload.bitfield)), checks)
      [] value.variant = "Request" -> Ok(13)
      [] value.variant = "Piece" -> u32_add(9, as_u32(Len(value.payload.piece)), checks)
      [] value.variant = "Cancel" -> Ok(13)

\* EncodeId gone wrong: Cancel carries the id of Piece
EncodeId_CancelAsPiece(value) ==
    CASE value.variant = "Choke" -> 0
      [] value.variant = "Unchoke" -> 1
      [] value.variant = "Interested" -> 2
      [] value.variant = "NotInterested" -> 3
      [] value.variant = "Have" -> 4
      [] value.variant = "Bitfield" -> 5
      [] value.variant = "Request" -> 6
      [] value.variant = "Piece" -> 7
      [] value.variant = "Cancel" -> 7

\* the match of From<PeerMessage> for Bytes: the id byte
EncodeId(value) ==
    CASE value.variant = "Choke" -> 0
      [] value.variant = "Unchoke" -> 1
      [] value.variant = "Interested" -> 2
      [] value.variant = "NotInterested" -> 3
      [] value.variant = "Have" -> 4
      [] value.variant = "Bitfield" -> 5
      [] value.variant = "Request" -> 6
      [] value.variant = "Piece" -> 7
      [] value.variant = "Cancel" -> 8

\* EncodePayload gone wrong: the inline Cancel payload has length before begin
EncodePayload_CancelSwapped(value) ==
    CASE value.variant \in {"Choke", "Unchoke", "Interested", "NotInterested"} -> <<>>
      [] value.variant = "Have" -> HavePayload_into_Bytes(value.payload)
      [] value.variant = "Bitfield" -> BitfieldPayload_into_Bytes(value.payload)
      [] value.variant = "Request" ->
            u32_to_be_bytes(value.payload.index) \o u32_to_be_bytes(value.payload.begin)
                \o u32_to_be_bytes(value.payload.length)
      [] value.variant = "Piece" ->
            u32_to_be_bytes(value.payload.index) \o u32_to_be_bytes(value.payload.begin)
                \o value.payload.piece
      [] value.variant = "Cancel" ->
            u32_to_be_bytes(value.payload.index) \o u32_to_be_bytes(value.payload.length)
                \o u32_to_be_bytes(value.payload.begin)

\* the match of From<PeerMessage> for Bytes: the payload bytes
EncodePayload(value) ==
    CASE value.variant \in {"Choke", "Unchoke", "Interested", "NotInterested"} -> <<>>
      [] value.variant = "Have" -> HavePayload_into_Bytes(value.payload)
      [] value.variant = "Bitfield" -> BitfieldPayload_into_Bytes(value.payload)
      [] value.variant = "Request" ->
            u32_to_be_bytes(value.payload.index) \o u32_to_be_bytes(value.payload.begin)
                \o u32_to_be_bytes(value.payload.length)
      [] value.variant = "Piece" ->
            u32_to_be_bytes(value.payload.index) \o u32_to_be_bytes(value.payload.begin)
                \o value.payload.piece
      [] value.variant = "Cancel" ->
            u32_to_be_bytes(value.payload.index) \o u32_to_be_bytes(value.payload.begin)
                \o u32_to_be_bytes(value.payload.length)

\* impl From<PeerMessage> for Bytes
PeerMessage_into_Bytes(value, checks) ==
    LET length == EncodeLength(value, checks) IN
    IF length.tag # "Ok" THEN length
    ELSE Ok(u32_to_be_bytes(length.val) \o <<EncodeId(value)>> \o EncodePayload(value))

----------------------------------------------------------------------------
(* The handshake *)

\* AsciiString::from_ascii("BitTorrent protocol").unwrap(), as its bytes
pstr == <<66, 105, 116, 84, 111, 114, 114, 101, 110, 116, 32,
          112, 114, 111, 116, 111, 99, 111, 108>>

\* the length value.len() is compared with
HandshakeLen == 68

\* AsciiChar::new(x as char) panics unless x is ASCII
IsAscii(x) == x < 128

\* HandshakeMessage_into_Bytes gone wrong: the peer id before the info hash
HandshakeMessage_into_Bytes_PeerFirst(value) ==
    LET pstrlen == Len(pstr) % 256
        reserved == Repeat(0, 8)
    IN  <<pstrlen>> \o pstr \o reserved \o value.peer_id \o value.info_hash

\* impl From<HandshakeMessage> for Bytes
HandshakeMessage_into_Bytes(value) ==
    LET pstrlen == Len(pstr) % 256
        reserved == Repeat(0, 8)
    IN  <<pstrlen>> \o pstr \o reserved \o value.info_hash \o value.peer_id

\* HandshakeMessage_try_from gone wrong: the info hash starts one byte early
HandshakeMessage_try_from_OffByOne(value) ==
    IF Len(value) < HandshakeLen THEN Err("TooShort")
    ELSE IF Len(value) > HandshakeLen THEN Err("TooLong")
    ELSE IF ~IndexOk(value, 0) THEN Panic("index out of bounds")
    ELSE LET pstrlen == value[1]
             info_hash_start == pstrlen + 8
             peer_id_start == info_hash_start + 20
    IN  IF ~SliceOk(value, 4, pstrlen) THEN Panic("slice index out of range")
        ELSE IF \E i \in 4..(pstrlen - 1) : ~IsAscii(value[i + 1])
            THEN Panic("AsciiChar::new: not ASCII")
        ELSE IF ~SliceOk(value, info_hash_start, peer_id_start)
            THEN Panic("slice index out of range")
        ELSE IF ~SliceOk(value, peer_id_start, Len(value))
            THEN Panic("slice index out of range")
        ELSE Ok([info_hash |-> Slice(value, info_hash_start, peer_id_start),
                 peer_id |-> SliceFrom(value, peer_id_start)])

\* impl TryFrom<Bytes> for HandshakeMessage
HandshakeMessage_try_from(value) ==
    IF Len(value) < HandshakeLen THEN Err("TooShort")
    ELSE IF Len(value) > HandshakeLen THEN Err("TooLong")
    ELSE IF ~IndexOk(value, 0) THEN Panic("index out of bounds")
    ELSE LET pstrlen == value[1]
             info_hash_start == 1 + pstrlen + 8
             peer_id_start == info_hash_start + 20
    IN  IF ~SliceOk(value, 4, pstrlen) THEN Panic("slice index out of range")
        ELSE IF \E i \in 4..(pstrlen - 1) : ~IsAscii(value[i + 1])
            THEN Panic("AsciiChar::new: not ASCII")
        ELSE IF ~SliceOk(value, info_hash_start, peer_id_start)
            THEN Panic("slice index out of range")
        ELSE IF ~SliceOk(value, peer_id_start, Len(value))
            THEN Panic("slice index out of range")
        ELSE Ok([info_hash |-> Slice(value, info_hash_start, peer_id_start),
                 peer_id |-> SliceFrom(value, peer_id_start)])

----------------------------------------------------------------------------
(* The inputs of the callers *)

SeqsUpTo(S, n) == UNION {[1..k -> S] : k \in 0..n}

Counting(from, n) == [i \in 1..n |-> from + i]

\* byte sequences of no particular shape
GarbageBytes == {0, 1, 5, 9}
GarbageInputs == SeqsUpTo(GarbageBytes, MaxGarbageLen)

\* frames: a declared length, an id and a payload, consistent or not
TestPayload == <<0, 0, 0, 33, 0, 0, 8, 0, 0, 0, 1, 0>>
FramePayloads ==
    UNION {{Repeat(0, n), Counting(0, n),
            [i \in 1..n |-> IF i <= Len(TestPayload) THEN TestPayload[i] ELSE 127]}
           : n \in 0..MaxPayloadLen}
FrameIds == 0..9 \cup {255}
DeclaredLengths(n) == {n + 1, n, n + 2, 0, 255}
PrefixHighs == {<<0, 0, 0>>, <<0, 0, 1>>, <<1, 0, 0>>}
FrameInputs ==
    UNION {{high \o <<l>> \o <<id>> \o p :
                high \in PrefixHighs, l \in DeclaredLengths(Len(p)), id \in FrameIds}
           : p \in FramePayloads}

\* handshakes off the wire: the name length, the name, the reserved bytes, the
\* two hashes, and one byte cut or added
PstrLens == {0, 3, 4, 19, 20, 39, 40, 68, 69, 127}
Pstrs ==
    {pstr, [pstr EXCEPT ![11] = 200], [pstr EXCEPT ![2] = 200], Repeat(0, 19)}
Reserveds == {Repeat(0, 8), <<0, 0, 0, 0, 0, 16, 0, 5>>, Repeat(255, 8)}
Hashes == {Repeat(1, 20), Repeat(2, 20), Counting(40, 20), Counting(200, 20)}
WireHandshakes ==
    {<<n>> \o name \o reserved \o info_hash \o peer_id :
        n \in PstrLens, name \in Pstrs, reserved \in Reserveds,
        info_hash \in {Repeat(1, 20), Counting(200, 20)},
        peer_id \in {Repeat(2, 20), Counting(40, 20)}}
HandshakeInputs ==
    WireHandshakes
        \cup {SubSeq(b, 1, Len(b) - 1) : b \in WireHandshakes}
        \cup {b \o <<0>> : b \in WireHandshakes}
        \cup {Repeat(1, 20), Repeat(1, 100)}

\* every input is shorter than U32Modulus + 4 bytes: a longer one cannot carry
\* a length prefix, a u32, that counts its bytes
BytesInputs == GarbageInputs \cup FrameInputs \cup HandshakeInputs

\* messages built by the application, with byte payloads of a few bytes
U32Samples == {0, 33, 2048, 16909060, 2147483647}
OpaqueBytes == {0, 1, 255}
OpaqueSeqs == SeqsUpTo(OpaqueBytes, MaxOpaqueLen)
MessagesOver(payloads) ==
    {Bitfield([bitfield |-> b]) : b \in payloads}
        \cup {Piece([index |-> i, begin |-> b, piece |-> p]) :
                i \in {33, 16909060}, b \in {0, 2048}, p \in payloads}
PeerMessages ==
    {Choke, Unchoke, Interested, NotInterested}
        \cup {Have([index |-> i]) : i \in U32Samples}
        \cup {Request([index |-> i, begin |-> b, length |-> l]) :
                i \in U32Samples, b \in U32Samples, l \in U32Samples}
        \cup {Cancel([index |-> i, begin |-> b, length |-> l]) :
                i \in U32Samples, b \in U32Samples, l \in U32Samples}
        \cup MessagesOver(OpaqueSeqs)

\* messages whose byte payload is at the edge of what a u32 length can count
LongLens ==
    {U32Modulus - 10, U32Modulus - 9, U32Modulus - 2, U32Modulus - 1, U32Modulus}
LongPeerMessages == MessagesOver({Repeat(1, n) : n \in LongLens})

HandshakeMessages ==
    {[info_hash |-> h, peer_id |-> q] :
        h \in Hashes \cup {<<>>, Repeat(7, 19)},
        q \in Hashes \cup {<<>>, Repeat(7, 21)}}

\* the caller holds bytes off the wire, a message or a handshake
IsInput(v) ==
    \/ v.kind = "Bytes" /\ v.val \in BytesInputs
    \/ v.kind = "PeerMessage" /\ v.val \in PeerMessages \cup LongPeerMessages
    \/ v.kind = "HandshakeMessage" /\ v.val \in HandshakeMessages

----------------------------------------------------------------------------
(* The frame of a call: each caller runs its calls on a frame of its own *)

Callers == 1..NumCallers

\* let mut length: u32 = 1; let id: u8; let mut payload: Bytes = vec![];
\* id has no value until the match assigns it, and is not read before
InitialLocals == [length |-> 1, id |-> 0, payload |-> <<>>]

\* no call in flight
Idle ==
    [pc |-> "idle", fn |-> "", given |-> <<>>, value |-> <<>>,
     locals |-> InitialLocals, out |-> Ok(<<>>)]

\* fn(value) was called: the argument is moved into the parameter `value`;
\* given remembers what the caller passed
Frame(fn, v) ==
    [pc |-> "called", fn |-> fn, given |-> v, value |-> v,
     locals |-> InitialLocals, out |-> Ok(<<>>)]

----------------------------------------------------------------------------
(* The caller: it converts the input, then the result of a conversion *)

LastCall == calls[Len(calls)]

\* what a conversion returns, when it returns Ok
OutKind(fn) ==
    CASE fn = "PeerMessage::try_from" -> "PeerMessage"
      [] fn = "HandshakeMessage::try_from" -> "HandshakeMessage"
      [] fn \in {"Bytes::from(PeerMessage)", "Bytes::from(HandshakeMessage)"} -> "Bytes"

\* the value at hand: the input, or what the last conversion returned
Current ==
    IF calls = <<>> THEN input
    ELSE [kind |-> OutKind(LastCall.fn), val |-> LastCall.out.val]

CanCall(kind) ==
    /\ Len(calls) < MaxCalls
    /\ IF calls = <<>> THEN TRUE ELSE LastCall.out.tag = "Ok"
    /\ Current.kind = kind

Call(fn, out) ==
    /\ calls' = Append(calls, [fn |-> fn, arg |-> Current.val, out |-> out])
    /\ UNCHANGED <<overflow_checks, input, threads>>

DecodePeerMessage ==
    /\ CanCall("Bytes")
    /\ Call("PeerMessage::try_from", PeerMessage_try_from(Current.val))

EncodePeerMessage ==
    /\ CanCall("PeerMessage")
    /\ Call("Bytes::from(PeerMessage)",
            PeerMessage_into_Bytes(Current.val, overflow_checks))

DecodeHandshake ==
    /\ CanCall("Bytes")
    /\ Call("HandshakeMessage::try_from", HandshakeMessage_try_from(Current.val))

EncodeHandshake ==
    /\ CanCall("HandshakeMessage")
    /\ Call("Bytes::from(HandshakeMessage)", Ok(HandshakeMessage_into_Bytes(Current.val)))

Init ==
    /\ overflow_checks \in BOOLEAN
    /\ \/ \E b \in BytesInputs : input = [kind |-> "Bytes", val |-> b]
       \/ \E m \in PeerMessages : input = [kind |-> "PeerMessage", val |-> m]
       \/ \E m \in LongPeerMessages : input = [kind |-> "PeerMessage", val |-> m]
       \/ \E h \in HandshakeMessages : input = [kind |-> "HandshakeMessage", val |-> h]
    /\ calls = <<>>
    /\ threads = [c \in Callers |-> Idle]

Next ==
    \/ DecodePeerMessage
    \/ EncodePeerMessage
    \/ DecodeHandshake
    \/ EncodeHandshake

Spec == Init /\ [][Next]_vars

TypeOK ==
    /\ overflow_checks \in BOOLEAN
    /\ IsInput(input)
    /\ Len(calls) <= MaxCalls
    /\ \A i \in 1..Len(calls) : calls[i].out.tag \in {"Ok", "Err", "Panic"}

----------------------------------------------------------------------------
(* Several callers at once: each runs its conversions on its own frame, and *)
(* the steps of the calls interleave                                        *)

\* what the callers convert: a few frames and handshakes, good and bad
ConcBytes ==
    {<<>>, <<0, 0, 0, 1, 0>>, <<0, 0, 0, 5, 4, 1, 2, 3, 4>>, <<0, 0, 0, 3, 5, 9, 255>>,
     <<0, 0, 0, 1, 7>>, <<19>> \o pstr \o Repeat(0, 8) \o Repeat(1, 20) \o Repeat(2, 20)}
ConcMessages ==
    {Choke, Have([index |-> 33]), Bitfield([bitfield |-> <<1, 255>>]),
     Request([index |-> 33, begin |-> 2048, length |-> 256]),
     Piece([index |-> 33, begin |-> 0, piece |-> <<7, 8, 9>>]),
     Bitfield([bitfield |-> Repeat(1, U32Modulus - 1)])}
ConcHandshakes ==
    {[info_hash |-> Repeat(1, 20), peer_id |-> Repeat(2, 20)],
     [info_hash |-> Counting(200, 20), peer_id |-> Counting(40, 20)]}

\* the conversion fn applied to v, alone
Apply(fn, v, checks) ==
    CASE fn = "PeerMessage::try_from" -> PeerMessage_try_from(v)
      [] fn = "Bytes::from(PeerMessage)" -> PeerMessage_into_Bytes(v, checks)
      [] fn = "HandshakeMessage::try_from" -> HandshakeMessage_try_from(v)
      [] fn = "Bytes::from(HandshakeMessage)" -> Ok(HandshakeMessage_into_Bytes(v))

\* Locals gone wrong: length, id and payload are statics, those of caller 1
Locals_Static(c) == threads[1].locals

\* the local variables of the call of caller c
Locals(c) == threads[c].locals

Step(c, frame) ==
    /\ threads' = [threads EXCEPT ![c] = frame]
    /\ UNCHANGED <<overflow_checks, input, calls>>

\* caller c calls a conversion with a value of its own
Invoke(c) ==
    /\ threads[c].pc = "idle"
    /\ \/ \E b \in ConcBytes : Step(c, Frame("PeerMessage::try_from", b))
       \/ \E b \in ConcBytes : Step(c, Frame("HandshakeMessage::try_from", b))
       \/ \E m \in ConcMessages : Step(c, Frame("Bytes::from(PeerMessage)", m))
       \/ \E h \in ConcHandshakes : Step(c, Frame("Bytes::from(HandshakeMessage)", h))

\* From<PeerMessage> for Bytes, the match: length, id and payload are assigned,
\* or the addition of the length panics
Match(c) ==
    /\ threads[c].pc = "called"
    /\ threads[c].fn = "Bytes::from(PeerMessage)"
    /\ LET value == threads[c].value
           length == EncodeLength(value, overflow_checks)
       IN  IF length.tag # "Ok"
           THEN Step(c, [threads[c] EXCEPT !.pc = "returned", !.out = length])
           ELSE Step(c, [threads[c] EXCEPT
                            !.pc = "matched",
                            !.locals = [length |-> length.val, id |-> EncodeId(value),
                                        payload |-> EncodePayload(value)]])

\* From<PeerMessage> for Bytes, after the match: the three parts are joined
Marshal(c) ==
    /\ threads[c].pc = "matched"
    /\ LET length_bytes == u32_to_be_bytes(Locals(c).length)
       IN  Step(c, [threads[c] EXCEPT
                        !.pc = "returned",
                        !.out = Ok(length_bytes \o <<Locals(c).id>> \o Locals(c).payload)])

\* the three other conversions: they read `value` and return
Run(c) ==
    /\ threads[c].pc = "called"
    /\ threads[c].fn # "Bytes::from(PeerMessage)"
    /\ Step(c, [threads[c] EXCEPT
                    !.pc = "returned",
                    !.out = Apply(threads[c].fn, threads[c].value, overflow_checks)])

\* the caller takes the result; the frame is gone
Return(c) ==
    /\ threads[c].pc = "returned"
    /\ Step(c, Idle)

ConcInit ==
    /\ overflow_checks \in BOOLEAN
    /\ input = [kind |-> "Bytes", val |-> <<>>]
    /\ calls = <<>>
    /\ threads = [c \in Callers |-> Idle]

ConcNext ==
    \E c \in Callers : Invoke(c) \/ Match(c) \/ Marshal(c) \/ Run(c) \/ Return(c)

ConcSpec == ConcInit /\ [][ConcNext]_vars

----------------------------------------------------------------------------
(* The properties *)

Calls == 1..Len(calls)

IsOk(r, v) == r.tag = "Ok" /\ r.val = v

IsErr(r, e) == r.tag = "Err" /\ r.val = e

\* four bytes read as a big-endian number
BigEndian(b) == ((b[1] * 256 + b[2]) * 256 + b[3]) * 256 + b[4]

\* a frame whose length prefix counts the bytes that follow it
ConsistentFrame(b) == Len(b) >= 5 /\ BigEndian(SubSeq(b, 1, 4)) = Len(b) - 4

\* the call after call i decodes, as a peer message, the bytes call i encoded
EncodedThenDecoded(i) ==
    /\ i + 1 \in Calls
    /\ calls[i].fn = "Bytes::from(PeerMessage)"
    /\ calls[i + 1].fn = "PeerMessage::try_from"

\* the call after call i encodes the peer message call i decoded
DecodedThenEncoded(i) ==
    /\ i + 1 \in Calls
    /\ calls[i].fn = "PeerMessage::try_from"
    /\ calls[i + 1].fn = "Bytes::from(PeerMessage)"

\* C1: decoding the bytes that encoding a peer message m produced returns
\* Ok(m), for every message m of the nine variants.
C1_RoundTrip ==
    \A i \in Calls :
        EncodedThenDecoded(i) => IsOk(calls[i + 1].out, calls[i].arg)

\* C2: when decoding bytes b as a peer message succeeds, encoding the decoded
\* message returns exactly b.
C2_InverseRoundTrip ==
    \A i \in Calls :
        DecodedThenEncoded(i) => IsOk(calls[i + 1].out, calls[i].arg)

\* reached: a Piece frame was decoded and encoded again
C2_Witness ==
    /\ Len(calls) = 2
    /\ DecodedThenEncoded(1)
    /\ calls[1].out.val.variant = "Piece"
    /\ calls[2].out.tag = "Ok"

\* C3: a consistent frame of id 7 with a payload of n bytes decodes, for every
\* n >= 8, to Piece with index and begin the big-endian payload bytes 0..4 and
\* 4..8 and piece the other n - 8 bytes; it fails TooShort when n < 8 and never
\* fails TooLong.
C3_PieceDecode ==
    \A i \in Calls :
        (calls[i].fn = "PeerMessage::try_from" /\ ConsistentFrame(calls[i].arg)
            /\ calls[i].arg[5] = 7) =>
            LET b == calls[i].arg
                n == Len(b) - 5
            IN  /\ n >= 8 =>
                    IsOk(calls[i].out,
                         Piece([index |-> BigEndian(SubSeq(b, 6, 9)),
                                begin |-> BigEndian(SubSeq(b, 10, 13)),
                                piece |-> SubSeq(b, 14, Len(b))]))
                /\ n < 8 => IsErr(calls[i].out, "TooShort")
                /\ ~IsErr(calls[i].out, "TooLong")

Variants ==
    {"Choke", "Unchoke", "Interested", "NotInterested", "Have", "Bitfield",
     "Request", "Piece", "Cancel"}

\* C4: decoding any bytes as a peer message returns a message or one of the
\* four errors; it never panics on an index outside the input.
C4_DecodeTotal ==
    \A i \in Calls :
        calls[i].fn = "PeerMessage::try_from" =>
            \/ calls[i].out.tag = "Ok" /\ calls[i].out.val.variant \in Variants
            \/ calls[i].out.tag = "Err" /\ calls[i].out.val \in DecodeError

\* reached: a Have frame whose payload is shorter than the four bytes read
C4_Witness ==
    \E i \in Calls :
        /\ calls[i].fn = "PeerMessage::try_from"
        /\ ConsistentFrame(calls[i].arg)
        /\ calls[i].arg[5] = 4
        /\ Len(calls[i].arg) \in 5..8
        /\ IsErr(calls[i].out, "TooShort")

\* C5: decoding a handshake fails TooShort under 68 bytes, TooLong over 68
\* bytes and returns Ok for every input of 68 bytes, whatever the bytes are.
C5_HandshakeByLength ==
    \A i \in Calls :
        calls[i].fn = "HandshakeMessage::try_from" =>
            /\ Len(calls[i].arg) < 68 => IsErr(calls[i].out, "TooShort")
            /\ Len(calls[i].arg) > 68 => IsErr(calls[i].out, "TooLong")
            /\ Len(calls[i].arg) = 68 => calls[i].out.tag = "Ok"

\* C6: a handshake that decodes has an info_hash of 20 bytes, those at offset
\* 1 + pstrlen + 8, and a peer_id of 20 bytes, the 20 that follow.
C6_HandshakeFields ==
    \A i \in Calls :
        (calls[i].fn = "HandshakeMessage::try_from" /\ calls[i].out.tag = "Ok") =>
            LET b == calls[i].arg
                h == calls[i].out.val
                start == 1 + b[1] + 8
            IN  /\ Len(h.info_hash) = 20
                /\ Len(h.peer_id) = 20
                /\ start + 40 <= Len(b)
                /\ h.info_hash = SubSeq(b, start + 1, start + 20)
                /\ h.peer_id = SubSeq(b, start + 21, start + 40)

\* the handshake has both fields of 20 bytes
WellFormed(h) == Len(h.info_hash) = 20 /\ Len(h.peer_id) = 20

\* "BitTorrent protocol" in ASCII
ProtocolName ==
    <<66, 105, 116, 84, 111, 114, 114, 101, 110, 116, 32,
      112, 114, 111, 116, 111, 99, 111, 108>>

\* C7: encoding a handshake with fields of 20 bytes returns 68 bytes: 19, the
\* protocol name, 8 zero bytes, the info_hash, the peer_id.
C7_HandshakeLayout ==
    \A i \in Calls :
        (calls[i].fn = "Bytes::from(HandshakeMessage)" /\ WellFormed(calls[i].arg)) =>
            /\ calls[i].out.tag = "Ok"
            /\ Len(calls[i].out.val) = 68
            /\ calls[i].out.val[1] = 19
            /\ SubSeq(calls[i].out.val, 2, 20) = ProtocolName
            /\ SubSeq(calls[i].out.val, 21, 28) = <<0, 0, 0, 0, 0, 0, 0, 0>>
            /\ SubSeq(calls[i].out.val, 29, 48) = calls[i].arg.info_hash
            /\ SubSeq(calls[i].out.val, 49, 68) = calls[i].arg.peer_id

\* reached: a handshake with two different fields of 20 bytes was encoded
C7_Witness ==
    \E i \in Calls :
        /\ calls[i].fn = "Bytes::from(HandshakeMessage)"
        /\ WellFormed(calls[i].arg)
        /\ calls[i].arg.info_hash # calls[i].arg.peer_id

\* C8: decoding the bytes that encoding a handshake h with fields of 20 bytes
\* produced returns Ok(h).
C8_HandshakeRoundTrip ==
    \A i \in Calls :
        (/\ i + 1 \in Calls
         /\ calls[i].fn = "Bytes::from(HandshakeMessage)"
         /\ WellFormed(calls[i].arg)
         /\ calls[i + 1].fn = "HandshakeMessage::try_from") =>
            IsOk(calls[i + 1].out, calls[i].arg)

\* reached: a handshake whose fields hold bytes above 127 went round
C8_Witness ==
    /\ Len(calls) = 2
    /\ calls[1].fn = "Bytes::from(HandshakeMessage)"
    /\ WellFormed(calls[1].arg)
    /\ \E k \in 1..20 : calls[1].arg.info_hash[k] > 127
    /\ calls[2].fn = "HandshakeMessage::try_from"

\* C9: the first four bytes of an encoded peer message, read big-endian, are
\* the length of the encoding minus 4, for every message.
C9_FrameLength ==
    \A i \in Calls :
        calls[i].fn = "Bytes::from(PeerMessage)" =>
            /\ calls[i].out.tag = "Ok"
            /\ BigEndian(SubSeq(calls[i].out.val, 1, 4)) = Len(calls[i].out.val) - 4

\* the message of id 0..3
Bodyless(id) ==
    CASE id = 0 -> Choke [] id = 1 -> Unchoke [] id = 2 -> Interested
      [] id = 3 -> NotInterested

\* C10: a consistent frame of id 0, 1, 2 or 3 decodes to Choke, Unchoke,
\* Interested or NotInterested when no byte follows the id, and fails TooLong
\* when one does.
C10_Bodyless ==
    \A i \in Calls :
        (calls[i].fn = "PeerMessage::try_from" /\ ConsistentFrame(calls[i].arg)
            /\ calls[i].arg[5] \in 0..3) =>
            /\ Len(calls[i].arg) = 5 => IsOk(calls[i].out, Bodyless(calls[i].arg[5]))
            /\ Len(calls[i].arg) > 5 => IsErr(calls[i].out, "TooLong")

\* reached: a NotInterested frame with trailing bytes was refused
C10_Witness ==
    \E i \in Calls :
        /\ calls[i].fn = "PeerMessage::try_from"
        /\ ConsistentFrame(calls[i].arg)
        /\ calls[i].arg[5] = 3
        /\ Len(calls[i].arg) > 5
        /\ IsErr(calls[i].out, "TooLong")

\* call i decodes, as a peer message, a frame whose length prefix is right
DecodesFrame(i) ==
    calls[i].fn = "PeerMessage::try_from" /\ ConsistentFrame(calls[i].arg)

\* C11: a frame of at least 5 bytes with a right length prefix and an id of 9
\* or above fails InvalidMessageType, with no payload and with any payload.
C11_UnknownType ==
    \A i \in Calls :
        (DecodesFrame(i) /\ calls[i].arg[5] >= 9) =>
            IsErr(calls[i].out, "InvalidMessageType")

\* reached: a frame of id 9 that carries payload bytes was refused
C11_Witness ==
    \E i \in Calls :
        /\ DecodesFrame(i)
        /\ calls[i].arg[5] = 9
        /\ Len(calls[i].arg) > 5
        /\ IsErr(calls[i].out, "InvalidMessageType")

\* the bytes of frame b after the id byte
PayloadOf(b) == SubSeq(b, 6, Len(b))

\* C12: a frame with a right length prefix and id 4 decodes to Have, with the
\* index the big-endian value of the payload, exactly when the payload has 4
\* bytes; with fewer bytes, or none, it fails TooShort, with more, TooLong.
C12_HaveDecode ==
    \A i \in Calls :
        (DecodesFrame(i) /\ calls[i].arg[5] = 4) =>
            LET payload == PayloadOf(calls[i].arg) IN
            /\ Len(payload) = 4 =>
                    IsOk(calls[i].out, Have([index |-> BigEndian(payload)]))
            /\ Len(payload) < 4 => IsErr(calls[i].out, "TooShort")
            /\ Len(payload) > 4 => IsErr(calls[i].out, "TooLong")

\* reached: a Have frame decoded to an index whose four bytes all differ
C12_Witness ==
    \E i \in Calls :
        /\ DecodesFrame(i)
        /\ calls[i].arg[5] = 4
        /\ IsOk(calls[i].out, Have([index |-> 16909060]))

\* index, begin and length as the big-endian values of payload bytes 0..4,
\* 4..8 and 8..12
ThreeFields(payload) ==
    [index |-> BigEndian(SubSeq(payload, 1, 4)),
     begin |-> BigEndian(SubSeq(payload, 5, 8)),
     length |-> BigEndian(SubSeq(payload, 9, 12))]

\* C13: a frame with a right length prefix and id 6 (id 8) decodes to Request
\* (Cancel), with index, begin and length the big-endian values of payload
\* bytes 0..4, 4..8 and 8..12, exactly when the payload has 12 bytes; a shorter
\* payload fails TooShort and a longer one TooLong.
C13_RequestCancelDecode ==
    \A i \in Calls :
        (DecodesFrame(i) /\ calls[i].arg[5] \in {6, 8}) =>
            LET payload == PayloadOf(calls[i].arg)
                message == IF calls[i].arg[5] = 6 THEN Request(ThreeFields(payload))
                           ELSE Cancel(ThreeFields(payload))
            IN  /\ Len(payload) = 12 => IsOk(calls[i].out, message)
                /\ Len(payload) < 12 => IsErr(calls[i].out, "TooShort")
                /\ Len(payload) > 12 => IsErr(calls[i].out, "TooLong")

\* reached: a Cancel frame decoded to three different fields
C13_Witness ==
    \E i \in Calls :
        /\ DecodesFrame(i)
        /\ calls[i].arg[5] = 8
        /\ IsOk(calls[i].out, Cancel([index |-> 33, begin |-> 2048, length |-> 256]))

\* C14: decoding any input of fewer than 5 bytes as a peer message fails
\* TooShort, whatever the bytes are: the empty input and 00 00 00 00 too.
C14_MinimumFrame ==
    \A i \in Calls :
        (calls[i].fn = "PeerMessage::try_from" /\ Len(calls[i].arg) < 5) =>
            IsErr(calls[i].out, "TooShort")

\* reached: the frame of declared length 0, four zero bytes, was refused
C14_Witness ==
    \E i \in Calls :
        /\ calls[i].fn = "PeerMessage::try_from"
        /\ calls[i].arg = <<0, 0, 0, 0>>
        /\ IsErr(calls[i].out, "TooShort")

\* call i decodes, as a peer message, at least 5 bytes whose length prefix is
\* not the number of bytes that follow it
DecodesMisframed(i) ==
    /\ calls[i].fn = "PeerMessage::try_from"
    /\ Len(calls[i].arg) >= 5
    /\ BigEndian(SubSeq(calls[i].arg, 1, 4)) # Len(calls[i].arg) - 4

\* C15: decoding at least 5 bytes whose big-endian length prefix is not the
\* input length minus 4 fails WrongLength, whatever the id byte and the
\* payload are: no rule of the id or of the payload gives the result unless
\* the prefix is right.
C15_WrongLengthFirst ==
    \A i \in Calls : DecodesMisframed(i) => IsErr(calls[i].out, "WrongLength")

\* reached: a wrong prefix before an unknown id and a payload, where only the
\* high bytes of the prefix are wrong
C15_Witness ==
    \E i \in Calls :
        /\ DecodesMisframed(i)
        /\ calls[i].arg[5] = 255
        /\ Len(calls[i].arg) > 5
        /\ calls[i].arg[4] = Len(calls[i].arg) - 4
        /\ IsErr(calls[i].out, "WrongLength")

\* C16: encoding a peer message returns bytes and never panics, for every
\* message, a Bitfield or a Piece whose 1 + len or 9 + len passes the largest
\* u32 included.
C16_EncodeTotal ==
    \A i \in Calls :
        calls[i].fn = "Bytes::from(PeerMessage)" => calls[i].out.tag = "Ok"

\* the type id of each variant
IdOf(variant) ==
    CASE variant = "Choke" -> 0 [] variant = "Unchoke" -> 1
      [] variant = "Interested" -> 2 [] variant = "NotInterested" -> 3
      [] variant = "Have" -> 4 [] variant = "Bitfield" -> 5
      [] variant = "Request" -> 6 [] variant = "Piece" -> 7
      [] variant = "Cancel" -> 8

\* payload holds the fields of message m in declared order, the numbers as 4
\* big-endian bytes and the byte sequences as they are
PayloadLaidOut(m, payload) ==
    CASE m.variant \in {"Choke", "Unchoke", "Interested", "NotInterested"} ->
            payload = <<>>
      [] m.variant = "Have" ->
            Len(payload) = 4 /\ BigEndian(payload) = m.payload.index
      [] m.variant = "Bitfield" -> payload = m.payload.bitfield
      [] m.variant \in {"Request", "Cancel"} ->
            Len(payload) = 12 /\ ThreeFields(payload) = m.payload
      [] m.variant = "Piece" ->
            /\ Len(payload) >= 8
            /\ BigEndian(SubSeq(payload, 1, 4)) = m.payload.index
            /\ BigEndian(SubSeq(payload, 5, 8)) = m.payload.begin
            /\ SubSeq(payload, 9, Len(payload)) = m.payload.piece

\* b is 1 + the payload length in 4 big-endian bytes, the id byte of m, then
\* the payload of m
LaidOut(m, b) ==
    /\ Len(b) >= 5
    /\ BigEndian(SubSeq(b, 1, 4)) = 1 + Len(PayloadOf(b))
    /\ b[5] = IdOf(m.variant)
    /\ PayloadLaidOut(m, PayloadOf(b))

\* C18: encoding a peer message emits 1 + the payload length as 4 big-endian
\* bytes, the id byte of the variant (0..8 in the order of the enum) and the
\* payload: nothing for the four bodyless variants, else the fields in
\* declared order, numbers as 4 big-endian bytes, byte sequences verbatim; for
\* every message.
C18_EncodeLayout ==
    \A i \in Calls :
        calls[i].fn = "Bytes::from(PeerMessage)" =>
            calls[i].out.tag = "Ok" /\ LaidOut(calls[i].arg, calls[i].out.val)

\* C19: a frame with a right length prefix and id 5 decodes to Bitfield with
\* the bytes after the id as they are, for a payload of any length: no payload
\* at all (00 00 00 01 05) gives the empty bitfield.
C19_BitfieldDecode ==
    \A i \in Calls :
        (DecodesFrame(i) /\ calls[i].arg[5] = 5) =>
            IsOk(calls[i].out, Bitfield([bitfield |-> PayloadOf(calls[i].arg)]))

\* reached: 00 00 00 01 05 decoded to the empty bitfield
C19_Witness ==
    \E i \in Calls :
        /\ calls[i].fn = "PeerMessage::try_from"
        /\ calls[i].arg = <<0, 0, 0, 1, 5>>
        /\ IsOk(calls[i].out, Bitfield([bitfield |-> <<>>]))

\* 68 bytes that start with 19, the length of the protocol name
Names19(b) == Len(b) = 68 /\ b[1] = 19

\* C20: decoding a handshake of 68 bytes that starts with 19 returns Ok, and
\* the same Ok as for every other such input with the same bytes 28..68:
\* bytes 1..28, the name and the reserved bytes, may hold anything, bytes of
\* 0x80 and above too.
C20_NameNotValidated ==
    \A i \in Calls :
        (calls[i].fn = "HandshakeMessage::try_from" /\ Names19(calls[i].arg)) =>
            /\ calls[i].out.tag = "Ok"
            /\ \A b \in HandshakeInputs :
                    (Names19(b) /\ SubSeq(b, 29, 68) = SubSeq(calls[i].arg, 29, 68)) =>
                        HandshakeMessage_try_from(b) = calls[i].out

\* the call of caller c has returned what the conversion returns alone
AsInIsolation(c) ==
    LET alone == Apply(threads[c].fn, threads[c].given, overflow_checks)
    IN  threads[c].out.tag = alone.tag /\ threads[c].out.val = alone.val

\* C17: when several callers convert at once, in any interleaving of the
\* steps of their calls, every call returns what the same conversion returns
\* alone on the same input, and the value it was given is as it was given; a
\* call between its match and its joining holds what the match alone assigns.
C17_Stateless ==
    \A c \in Callers :
        /\ threads[c].pc # "idle" => threads[c].value = threads[c].given
        /\ threads[c].pc = "returned" => AsInIsolation(c)
        /\ threads[c].pc = "matched" =>
                /\ Ok(threads[c].locals.length)
                        = EncodeLength(threads[c].given, overflow_checks)
                /\ threads[c].locals.id = EncodeId(threads[c].given)
                /\ threads[c].locals.payload = EncodePayload(threads[c].given)

\* reached: caller 2 has encoded a Piece while caller 1, after its match on
\* a Have, has not yet joined the parts
C17_Witness ==
    /\ threads[1].pc = "matched"
    /\ threads[1].given = Have([index |-> 33])
    /\ threads[2].pc = "returned"
    /\ threads[2].fn = "Bytes::from(PeerMessage)"
    /\ threads[2].given = Piece([index |-> 33, begin |-> 0, piece |-> <<7, 8, 9>>])
    /\ threads[2].out.tag = "Ok"

\* the bytes of the payload of message m by the conversion of the payload
\* type itself, From<..Payload> for Bytes
StandaloneBytes(m) ==
    CASE m.variant = "Have" -> HavePayload_into_Bytes(m.payload)
      [] m.variant = "Bitfield" -> BitfieldPayload_into_Bytes(m.payload)
      [] m.variant = "Request" -> RequestPayload_into_Bytes(m.payload)
      [] m.variant = "Piece" -> PiecePayload_into_Bytes(m.payload)
      [] m.variant = "Cancel" -> CancelPayload_into_Bytes(m.payload)

\* call i encoded a peer message that has a payload, and returned bytes
EncodedPayload(i) ==
    /\ calls[i].fn = "Bytes::from(PeerMessage)"
    /\ calls[i].arg.variant \in {"Have", "Bitfield", "Request", "Piece", "Cancel"}
    /\ calls[i].out.tag = "Ok"

\* C21: the bytes that encoding a Have, Bitfield, Request, Piece or Cancel
\* message places after the id byte, built inline for Request, Piece and
\* Cancel, are the bytes that the conversion of its payload to bytes returns.
C21_SerializersAgree ==
    \A i \in Calls :
        EncodedPayload(i) =>
            /\ Len(calls[i].out.val) >= 5
            /\ PayloadOf(calls[i].out.val) = StandaloneBytes(calls[i].arg)

\* reached: a Cancel with three different fields was encoded
C21_Witness ==
    \E i \in Calls :
        /\ EncodedPayload(i)
        /\ calls[i].arg = Cancel([index |-> 16909060, begin |-> 33, length |-> 2048])
====
